---- MODULE Spec2Model ----
(***************************************************************************)
(* Model of break.py: the breaking-force calculator (calculate_force,     *)
(* calculate_psi, get_correlated_bones), its CSV export, its command line  *)
(* (main) and its interactive session (interactive_mode).                  *)
(*                                                                         *)
(* Arithmetic.  The program computes in binary floating point; the model   *)
(* computes the same formulas, in the same order, in fixed point:          *)
(*   force      milli-lbf            (200 lbf     = 200000)                *)
(*   spacing    micrometres          (1.52 mm     = 1520)                  *)
(*   duration   microseconds         (0.005 s     = 5000)                  *)
(*   mass       tenths of a kilogram (5.5 kg      = 55)                    *)
(*   velocity   1e-5 m/s             (0.1726 m/s  = 17260)                 *)
(*   area       tenths of a in^2     (2.5 in^2    = 25)                    *)
(*   exponent   halves               (1.5         = 3)                     *)
(* Every division and square root rounds toward zero at that unit.         *)
(***************************************************************************)
EXTENDS Integers, Sequences, FiniteSets, TLC

(* ---------------------------------------------------------------------- *)
(* Values                                                                  *)
(* ---------------------------------------------------------------------- *)

\* Python's None for an optional value; Some(x) is a present value x.
None == << >>
Some(x) == << x >>
IsSome(o) == Len(o) = 1
Val(o) == o[1]

Max(a, b) == IF a >= b THEN a ELSE b
Min(a, b) == IF a <= b THEN a ELSE b
Abs(a) == IF a >= 0 THEN a ELSE 0 - a

\* Units per whole: forces are kept in thousandths of a lbf.
Milli == 10 * 100

RECURSIVE SqrtSearch(_, _, _)
SqrtSearch(x, lo, hi) ==
    IF lo >= hi THEN lo
    ELSE LET mid == (lo + hi + 1) \div 2
         IN  IF mid * mid <= x THEN SqrtSearch(x, mid, hi)
                               ELSE SqrtSearch(x, lo, mid - 1)

\* math.sqrt on a non-negative fixed-point value: the largest r with r*r <= x.
ISqrt(x) == SqrtSearch(x, 0, Min(x, 46340))

RECURSIVE IPow(_, _)
IPow(b, k) == IF k = 0 THEN 1 ELSE b * IPow(b, k - 1)

\* n ** exponent in thousandths, for an exponent given in halves (e2 = 2*exponent).
PowMilli(n, e2) ==
    IF e2 >= 0
    THEN IPow(n, e2 \div 2) * (IF e2 % 2 = 1 THEN ISqrt(n * Milli * Milli) ELSE Milli)
    ELSE (Milli * Milli)
           \div (IPow(n, (0 - e2) \div 2)
                   * (IF (0 - e2) % 2 = 1 THEN ISqrt(n * Milli * Milli) ELSE Milli))

(* ---------------------------------------------------------------------- *)
(* Constant tables                                                         *)
(* ---------------------------------------------------------------------- *)

\* The built-in registry (used when materials.json is absent or malformed), in
\* insertion order.
MATERIALS_DICT ==
    << [name |-> "pine",      data |-> [F1 |-> 200, m |-> 8,  type |-> "flexible"]],
       [name |-> "paulownia", data |-> [F1 |-> 100, m |-> 5,  type |-> "flexible"]],
       [name |-> "concrete",  data |-> [F1 |-> 500, m |-> 55, type |-> "brittle"]] >>

\* A registry as json.load returns it from a well-formed materials.json.
MaterialsJson ==
    << [name |-> "tile",  data |-> [F1 |-> 50,  m |-> 55, type |-> "brittle"]],
       [name |-> "oak",   data |-> [F1 |-> 200, m |-> 8,  type |-> "flexible"]] >>

\* Bone thresholds in lbf, in insertion order.
BONE_DATA ==
    << [bone |-> "Clavicle", force |-> 147],
       [bone |-> "Skull (fracture)", force |-> 196],
       [bone |-> "Ulna", force |-> 337],
       [bone |-> "Skull (crush)", force |-> 517],
       [bone |-> "Ribs", force |-> 742],
       [bone |-> "Humerus", force |-> 787],
       [bone |-> "Femur", force |-> 899],
       [bone |-> "Tibia", force |-> 900] >>

\* G = 9.8 m/s^2, in tenths.
G == 98

\* 1 lbf = 4.448 N, in thousandths of a newton.
N_PER_LBF == 4448

\* Default impact duration 0.005 s, contact area 2.5 in^2, exponent 1.5.
DefaultDt == 5000
DefaultArea == 25
DefaultExponent == 3

\* Penny and carpenter-pencil spacings.
PennySpacing == 1520
PencilSpacing == 6350

\* Layer counts of a matrix or a CSV block: range(1, 11).
MatrixLayers == 10

(* ---------------------------------------------------------------------- *)
(* The force model                                                         *)
(* ---------------------------------------------------------------------- *)

\* v = sqrt(2 * G * h_m), h_m = spacing / 1000; in 1e-5 m/s for spacing in um:
\* v^2 [1e-10 m^2/s^2] = 2 * 9.8 * spacing * 1e-6 * 1e10 = 2 * G * spacing * 1000.
FallVelocity(spacing) == ISqrt(2 * G * spacing * Milli)

\* F_lbf_assist: p = m * v; F_N = p / dt; F_lbf_assist = F_N * N_TO_LBF.
\* p is in 1e-6 kg m/s, F_N in mN, the result in milli-lbf.
AssistLbf(m, spacing, dt) ==
    LET v   == FallVelocity(spacing)
        p   == m * v
        F_N == (p * Milli) \div dt
    IN  (F_N * Milli) \div N_PER_LBF

\* factor = 0.5 if flexible else 1.0, in halves.
FactorHalves(mat_type) == IF mat_type = "flexible" THEN 1 ELSE 2

\* reduction = (n - 1) * F_lbf_assist * factor
Reduction(material_data, n, spacing, dt) ==
    ((n - 1) * AssistLbf(material_data.m, spacing, dt)
             * FactorHalves(material_data.type)) \div 2

\* The clamp F1 * max(1, n * 0.5)
ClampFloor(F1, n) == F1 * Max(Milli, (n * Milli) \div 2)

\* Variant: the clamp left out (F = F_base - reduction).
UnclampedForce(F_base, reduction, F1, n) == F_base - reduction

\* Variant: the assist added to the base instead of subtracted.
ClampedForceAdds(F_base, reduction, F1, n) == Max(F_base + reduction, ClampFloor(F1, n))

\* The clamped pegged force: max(F_base - reduction, F1 * max(1, n * 0.5))
ClampedForce(F_base, reduction, F1, n) == Max(F_base - reduction, ClampFloor(F1, n))

\* The guard of the early return of the pegged branch.
NoAssist(n, spacing) == n = 1 \/ ~IsSome(spacing) \/ Val(spacing) <= 0

\* Variant: a missing or zero spacing replaced by the penny default
\* (spacing = spacing or 1.52) before the early return is decided.
PeggedForceDefaultSpacing(material_data, n, spacing, dt) ==
    LET F_base == material_data.F1 * n * Milli
        s == IF ~IsSome(spacing) \/ Val(spacing) = 0 THEN Some(PennySpacing) ELSE spacing
    IN  IF NoAssist(n, s)
        THEN F_base
        ELSE ClampedForce(F_base, Reduction(material_data, n, Val(s), dt),
                          material_data.F1, n)

PeggedForce(material_data, n, spacing, dt) ==
    LET F_base == material_data.F1 * n * Milli
    IN  IF NoAssist(n, spacing)
        THEN F_base
        ELSE ClampedForce(F_base, Reduction(material_data, n, Val(spacing), dt),
                          material_data.F1, n)

\* Variant: the exponent multiplied in instead of applied as a power.
UnpeggedForceTimes(material_data, n, exponent) ==
    IF material_data.type = "flexible"
    THEN (material_data.F1 * n * exponent * Milli) \div 2
    ELSE material_data.F1 * n * Milli

\* Variant: the two classes exchanged (the power applied to brittle).
UnpeggedForceSwapped(material_data, n, exponent) ==
    IF material_data.type = "brittle"
    THEN material_data.F1 * PowMilli(n, exponent)
    ELSE material_data.F1 * n * Milli

UnpeggedForce(material_data, n, exponent) ==
    IF material_data.type = "flexible"
    THEN material_data.F1 * PowMilli(n, exponent)
    ELSE material_data.F1 * n * Milli

calculate_force(material_data, n, config, spacing, dt, exponent) ==
    IF config = "unpegged"
    THEN UnpeggedForce(material_data, n, exponent)
    ELSE PeggedForce(material_data, n, spacing, dt)

\* psi = force / a, in thousandths.
calculate_psi(force, a) == (force * 10) \div a

RECURSIVE BonesFrom(_, _)
BonesFrom(force, i) ==
    IF i > Len(BONE_DATA) THEN << >>
    ELSE IF force >= BONE_DATA[i].force * Milli
         THEN << BONE_DATA[i].bone >> \o BonesFrom(force, i + 1)
         ELSE BonesFrom(force, i + 1)

\* The bones whose threshold the force reaches, or the "None (...)" marker.
get_correlated_bones(force) ==
    IF BonesFrom(force, 1) = << >> THEN << "None" >> ELSE BonesFrom(force, 1)

\* round(x, 1) on thousandths: the nearest tenth.
Round1(x) == ((x + 50) \div 100) * 100

(* ---------------------------------------------------------------------- *)
(* State                                                                   *)
(* ---------------------------------------------------------------------- *)

VARIABLES
    mat,        \* direct calls: the material_data passed to calculate_force
    call,       \* direct calls: the other arguments of the latest call, or None
    ret,        \* direct calls: the value the latest call returned, or None
    prev,       \* direct calls: spacing and result of the call before, or None
    registry,   \* program: MATERIALS_DICT as loaded at import
    args,       \* program: the parsed command line (argparse's namespace)
    pc,         \* program: where the run is
    printed,    \* program: the kinds of message written to stdout / stderr
    shown,      \* program: the result lines printed (single result or matrix rows)
    files,      \* program: the files the run has opened for writing
    csv,        \* program: the rows written to the CSV file, header first
    loop,       \* program: generate_csv's parameters and loop position
    forceCalls, \* program: how many times calculate_force has been called
    sess,       \* program: interactive_mode's local variables
    typed       \* program: the latest line read by input(), or None

callVars == << mat, call, ret, prev >>
progVars == << registry, args, pc, printed, shown, files, csv, loop, forceCalls,
              sess, typed >>
vars == << mat, call, ret, prev,
           registry, args, pc, printed, shown, files, csv, loop, forceCalls,
           sess, typed >>

(* ---------------------------------------------------------------------- *)
(* Direct calls of calculate_force (as the unit tests make them)           *)
(* ---------------------------------------------------------------------- *)

\* Largest layer count of a direct call.
MaxN == 4

\* Material profiles: F1 > 0, m > 0, either class. Includes the registry's three.
Profiles == [F1 : {50, 200, 100, 500}, m : {5, 8, 55}, type : {"flexible", "brittle"}]

CallSpacings == {None, Some(0 - 1000), Some(0), Some(1), Some(PennySpacing), Some(PencilSpacing)}
CallDts == {1000, DefaultDt}
CallExponents == {0 - 1, DefaultExponent, 4}
Configs == {"pegged", "unpegged"}

CallArgs == [n : 1..MaxN, config : Configs, spacing : CallSpacings,
             dt : CallDts, exponent : CallExponents]

Apply(material_data, c) ==
    calculate_force(material_data, c.n, c.config, c.spacing, c.dt, c.exponent)

\* The program part of the state while calculate_force is called directly.
ProgIdle ==
    /\ registry = MATERIALS_DICT
    /\ args = None /\ pc = "library" /\ printed = {} /\ shown = << >> /\ files = {}
    /\ csv = << >> /\ loop = None /\ forceCalls = 0 /\ sess = None /\ typed = None

InitCalls ==
    /\ mat \in Profiles
    /\ call = None /\ ret = None /\ prev = None
    /\ ProgIdle

\* A first call with any arguments.
Call ==
    /\ call = None
    /\ \E c \in CallArgs :
         /\ call' = Some(c)
         /\ ret' = Some(Apply(mat, c))
    /\ UNCHANGED << mat, prev >>
    /\ UNCHANGED progVars

\* The same call again with another spacing.
Respace ==
    /\ IsSome(call)
    /\ \E s \in CallSpacings :
         /\ s # Val(call).spacing
         /\ prev' = Some([spacing |-> Val(call).spacing, config |-> Val(call).config,
                          force |-> Val(ret)])
         /\ call' = Some([Val(call) EXCEPT !.spacing = s])
         /\ ret' = Some(Apply(mat, [Val(call) EXCEPT !.spacing = s]))
    /\ UNCHANGED mat
    /\ UNCHANGED progVars

\* A pegged call made again as unpegged, every other argument the same.
Unpeg ==
    /\ IsSome(call) /\ Val(call).config = "pegged"
    /\ prev' = Some([spacing |-> Val(call).spacing, config |-> Val(call).config,
                     force |-> Val(ret)])
    /\ call' = Some([Val(call) EXCEPT !.config = "unpegged"])
    /\ ret' = Some(Apply(mat, [Val(call) EXCEPT !.config = "unpegged"]))
    /\ UNCHANGED mat
    /\ UNCHANGED progVars

NextCalls == Call \/ Respace \/ Unpeg

SpecCalls == InitCalls /\ [][NextCalls]_vars

(* ---------------------------------------------------------------------- *)
(* The program: main()                                                     *)
(* ---------------------------------------------------------------------- *)

Names(reg) == { reg[i].name : i \in 1..Len(reg) }
Lookup(reg, name) == (CHOOSE i \in 1..Len(reg) : reg[i].name = name)
Data(reg, name) == reg[Lookup(reg, name)].data

\* The command lines of the model. given is len(sys.argv) > 1; a run without
\* arguments has every option at its default.
ArgLayers == {0, 1, 3, 11}
ArgSpacings == {None, Some(0 - 1000), Some(0), Some(3000)}
CsvName == "out.csv"

DefaultArgs ==
    [given |-> FALSE, material |-> None, layers |-> 1, config |-> "unpegged",
     spacing |-> None, pencil |-> FALSE, matrix |-> FALSE, all_csv |-> None,
     impact_time |-> DefaultDt, contact_area |-> DefaultArea,
     scaling_exponent |-> DefaultExponent, plot |-> FALSE, test |-> FALSE,
     update_data |-> FALSE]

GivenArgs(reg) ==
    [given : {TRUE}, material : {None} \cup { Some(x) : x \in Names(reg) },
     layers : ArgLayers, config : Configs, spacing : ArgSpacings,
     pencil : BOOLEAN, matrix : BOOLEAN, all_csv : {None, Some(CsvName)},
     impact_time : {DefaultDt}, contact_area : {DefaultArea},
     scaling_exponent : {DefaultExponent}, plot : BOOLEAN, test : BOOLEAN,
     update_data : BOOLEAN]

NoSession ==
    [mode |-> None, material |-> None, config |-> None, spacing |-> None,
     dt |-> None, a |-> None, exponent |-> None]

NoLoop == None

Init ==
    /\ mat = MATERIALS_DICT[1].data /\ call = None /\ ret = None /\ prev = None
    /\ registry \in {MATERIALS_DICT, MaterialsJson}
    /\ args \in {DefaultArgs} \cup GivenArgs(registry)
    /\ pc = "main"
    /\ printed = {} /\ shown = << >> /\ files = {} /\ csv = << >>
    /\ loop = NoLoop /\ forceCalls = 0 /\ sess = NoSession /\ typed = None

\* calculate_force raises ZeroDivisionError (p / dt) for a zero duration.
ForceRaises(n, config, spacing, dt) ==
    config = "pegged" /\ ~NoAssist(n, spacing) /\ dt = 0

\* One result: force, psi and the correlated bones of a layer count.
ResultRow(md, n, config, spacing, dt, a, exponent) ==
    LET force == calculate_force(md, n, config, spacing, dt, exponent)
    IN  [layers |-> n, force |-> force, psi |-> calculate_psi(force, a),
         bones |-> get_correlated_bones(force)]

RECURSIVE MatrixRows(_, _, _, _, _, _, _)
MatrixRows(md, config, spacing, dt, a, exponent, upto) ==
    IF upto = 0 THEN << >>
    ELSE Append(MatrixRows(md, config, spacing, dt, a, exponent, upto - 1),
                ResultRow(md, upto, config, spacing, dt, a, exponent))

\* print_matrix: rows for layers 1..10. A zero contact area raises in
\* calculate_psi at the first row, a zero duration raises in calculate_force
\* at the second row of a pegged matrix with a positive spacing.
\* rows: the rows printed; calls: the calls of calculate_force made.
PrintMatrix(md, config, spacing, dt, a, exponent) ==
    IF a = 0
    THEN [rows |-> << >>, calls |-> 1, raised |-> TRUE]
    ELSE IF ForceRaises(2, config, spacing, dt)
    THEN [rows |-> MatrixRows(md, config, spacing, dt, a, exponent, 1),
          calls |-> 2, raised |-> TRUE]
    ELSE [rows |-> MatrixRows(md, config, spacing, dt, a, exponent, MatrixLayers),
          calls |-> MatrixLayers, raised |-> FALSE]

\* The single calculation: calculate_force, calculate_psi, print_result.
PrintSingle(md, n, config, spacing, dt, a, exponent) ==
    IF ForceRaises(n, config, spacing, dt) \/ a = 0
    THEN [rows |-> << >>, calls |-> 1, raised |-> TRUE]
    ELSE [rows |-> << ResultRow(md, n, config, spacing, dt, a, exponent) >>,
          calls |-> 1, raised |-> FALSE]

\* --test: unittest.main(exit=False) parses sys.argv itself, rejects --test
\* ("unrecognized arguments") and exits with status 2; no test runs.
MainTest ==
    /\ pc = "main" /\ args.test
    /\ printed' = printed \cup {"unittest_usage_error"}
    /\ pc' = "usage_exit"
    /\ UNCHANGED << registry, args, shown, files, csv, loop, forceCalls, sess, typed >>
    /\ UNCHANGED callVars

MainUpdateData ==
    /\ pc = "main" /\ ~args.test /\ args.update_data
    /\ printed' = printed \cup {"data_verified"}
    /\ pc' = "done"
    /\ UNCHANGED << registry, args, shown, files, csv, loop, forceCalls, sess, typed >>
    /\ UNCHANGED callVars

NotEarly == pc = "main" /\ ~args.test /\ ~args.update_data

\* --all-csv FILE: generate_csv(FILE, impact_time, contact_area, scaling_exponent)
MainAllCsv ==
    /\ NotEarly /\ IsSome(args.all_csv)
    /\ loop' = Some([filename |-> Val(args.all_csv), dt |-> args.impact_time,
                     a |-> args.contact_area, exponent |-> args.scaling_exponent,
                     i |-> 1, c |-> 1, n |-> 1])
    /\ pc' = "csv_open"
    /\ UNCHANGED << registry, args, printed, shown, files, csv, forceCalls, sess, typed >>
    /\ UNCHANGED callVars

\* No argument at all: interactive_mode(), up to its first prompt.
MainInteractive ==
    /\ NotEarly /\ ~IsSome(args.all_csv) /\ ~args.given
    /\ printed' = printed \cup {"banner"}
    /\ pc' = "prompt_mode"
    /\ UNCHANGED << registry, args, shown, files, csv, loop, forceCalls, sess, typed >>
    /\ UNCHANGED callVars

Cli == NotEarly /\ ~IsSome(args.all_csv) /\ args.given

MainLayersError ==
    /\ Cli /\ args.layers < 1
    /\ printed' = printed \cup {"error_layers"}
    /\ pc' = "done"
    /\ UNCHANGED << registry, args, shown, files, csv, loop, forceCalls, sess, typed >>
    /\ UNCHANGED callVars

LayersWarning == IF args.layers > 10 THEN {"warning_layers"} ELSE {}

MainMissingMaterial ==
    /\ Cli /\ args.layers >= 1 /\ ~IsSome(args.material)
    /\ printed' = printed \cup LayersWarning \cup {"error_material", "usage"}
    /\ pc' = "done"
    /\ UNCHANGED << registry, args, shown, files, csv, loop, forceCalls, sess, typed >>
    /\ UNCHANGED callVars

HasMaterial == Cli /\ args.layers >= 1 /\ IsSome(args.material)

MainSpacingError ==
    /\ HasMaterial
    /\ args.config = "pegged" /\ IsSome(args.spacing) /\ Val(args.spacing) < 0
    /\ printed' = printed \cup LayersWarning \cup {"error_spacing"}
    /\ pc' = "done"
    /\ UNCHANGED << registry, args, shown, files, csv, loop, forceCalls, sess, typed >>
    /\ UNCHANGED callVars

\* The spacing main passes on: --spacing, else --pencil, else the penny; None
\* when unpegged.
CliSpacing ==
    IF args.config = "pegged"
    THEN IF IsSome(args.spacing) THEN args.spacing
         ELSE IF args.pencil THEN Some(PencilSpacing) ELSE Some(PennySpacing)
    ELSE None

Computes ==
    /\ HasMaterial
    /\ ~(args.config = "pegged" /\ IsSome(args.spacing) /\ Val(args.spacing) < 0)

\* --matrix: print_matrix, then with --plot ten more calls and the image file.
MainMatrix ==
    /\ Computes /\ args.matrix
    /\ LET md == Data(registry, Val(args.material))
           r  == PrintMatrix(md, args.config, CliSpacing, args.impact_time,
                             args.contact_area, args.scaling_exponent)
       IN  /\ shown' = shown \o r.rows
           /\ IF r.raised
              THEN /\ printed' = printed \cup LayersWarning \cup {"matrix", "traceback"}
                   /\ forceCalls' = forceCalls + r.calls
                   /\ files' = files
                   /\ pc' = "crashed"
              ELSE /\ printed' = printed \cup LayersWarning \cup {"matrix"}
                                   \cup (IF args.plot THEN {"plot_saved"} ELSE {})
                   /\ forceCalls' = forceCalls + r.calls
                                      + (IF args.plot THEN MatrixLayers ELSE 0)
                   /\ files' = files \cup (IF args.plot THEN {"force_plot.png"} ELSE {})
                   /\ pc' = "done"
    /\ UNCHANGED << registry, args, csv, loop, sess, typed >>
    /\ UNCHANGED callVars

MainSingle ==
    /\ Computes /\ ~args.matrix
    /\ LET md == Data(registry, Val(args.material))
           r  == PrintSingle(md, args.layers, args.config, CliSpacing,
                             args.impact_time, args.contact_area,
                             args.scaling_exponent)
       IN  /\ shown' = shown \o r.rows
           /\ forceCalls' = forceCalls + r.calls
           /\ printed' = printed \cup LayersWarning
                           \cup (IF r.raised THEN {"traceback"} ELSE {"result"})
           /\ pc' = IF r.raised THEN "crashed" ELSE "done"
    /\ UNCHANGED << registry, args, files, csv, loop, sess, typed >>
    /\ UNCHANGED callVars

(* ---------------------------------------------------------------------- *)
(* generate_csv                                                            *)
(* ---------------------------------------------------------------------- *)

ConfigOrder == << "pegged", "unpegged" >>

\* spacing = 1.52 if config == 'pegged' else None
CsvSpacing(config) == IF config = "pegged" THEN Some(PennySpacing) ELSE None

\* One data row. spacing is the Spacing_mm column, None standing for 'N/A'.
CsvRowOf(reg, l) ==
    LET md      == reg[l.i].data
        config  == ConfigOrder[l.c]
        spacing == CsvSpacing(config)
        force   == calculate_force(md, l.n, config, spacing, l.dt, l.exponent)
        psi     == calculate_psi(force, l.a)
    IN  [material |-> reg[l.i].name, config |-> config, spacing |-> spacing,
         layers |-> l.n, force |-> Round1(force), psi |-> Round1(psi),
         bones |-> get_correlated_bones(force)]

CsvHeader ==
    [material |-> "Material", config |-> "Config", spacing |-> None, layers |-> 0,
     force |-> 0, psi |-> 0, bones |-> << "Correlated_Bones" >>]

\* Variant: the layer loop as range(1, 10).
NextLoopShort(l) ==
    IF l.n < MatrixLayers - 1 THEN [l EXCEPT !.n = l.n + 1]
    ELSE IF l.c < Len(ConfigOrder) THEN [l EXCEPT !.n = 1, !.c = l.c + 1]
    ELSE [l EXCEPT !.n = 1, !.c = 1, !.i = l.i + 1]

\* The loop position after a row: layers innermost, then configuration, then
\* material.
NextLoop(l) ==
    IF l.n < MatrixLayers THEN [l EXCEPT !.n = l.n + 1]
    ELSE IF l.c < Len(ConfigOrder) THEN [l EXCEPT !.n = 1, !.c = l.c + 1]
    ELSE [l EXCEPT !.n = 1, !.c = 1, !.i = l.i + 1]

\* open(filename, 'w') succeeds and the header is written.
CsvOpen ==
    /\ pc = "csv_open"
    /\ files' = files \cup {Val(loop).filename}
    /\ csv' = << CsvHeader >>
    /\ pc' = IF Len(registry) = 0 THEN "done" ELSE "csv_rows"
    /\ UNCHANGED << registry, args, printed, shown, loop, forceCalls, sess, typed >>
    /\ UNCHANGED callVars

\* open raises IOError: the message is printed, nothing is written.
CsvOpenFails ==
    /\ pc = "csv_open"
    /\ printed' = printed \cup {"error_writing_csv"}
    /\ pc' = "done"
    /\ UNCHANGED << registry, args, shown, files, csv, loop, forceCalls, sess, typed >>
    /\ UNCHANGED callVars

\* One pass of the innermost loop body: compute and write a row.
CsvRow ==
    /\ pc = "csv_rows"
    /\ LET l == Val(loop)
       IN  /\ csv' = Append(csv, CsvRowOf(registry, l))
           /\ forceCalls' = forceCalls + 1
           /\ loop' = Some(NextLoop(l))
           /\ pc' = IF NextLoop(l).i > Len(registry) THEN "done" ELSE "csv_rows"
    /\ UNCHANGED << registry, args, printed, shown, files, sess, typed >>
    /\ UNCHANGED callVars

NextMain ==
    \/ MainTest \/ MainUpdateData \/ MainAllCsv \/ MainInteractive
    \/ MainLayersError \/ MainMissingMaterial \/ MainSpacingError
    \/ MainMatrix \/ MainSingle
    \/ CsvOpen \/ CsvOpenFails \/ CsvRow

(* ---------------------------------------------------------------------- *)
(* interactive_mode                                                        *)
(* ---------------------------------------------------------------------- *)

\* The lines a user types at a prompt.
RawInputs == {"q", "Q", " q ", "", "1", "2", "3", "y", "0", "-1"}

\* str.strip and str.lower on those lines.
Strip(raw) == IF raw = " q " THEN "q" ELSE raw
Lower(text) == IF text = "Q" THEN "q" ELSE text

\* text or default
OrDefault(text, default) == IF text = "" THEN default ELSE text

\* str.isdigit
IsDigit(text) == text \in {"0", "1", "2", "3"}

\* int(text): the integer, or None for ValueError.
ParseInt(text) ==
    CASE text = "0" -> Some(0)
      [] text = "1" -> Some(1)
      [] text = "2" -> Some(2)
      [] text = "3" -> Some(3)
      [] text = "-1" -> Some(0 - 1)
      [] OTHER -> None

\* float(text) in thousandths, or None for ValueError.
ParseFloat(text) ==
    CASE text = "0" -> Some(0)
      [] text = "1" -> Some(1000)
      [] text = "2" -> Some(2000)
      [] text = "3" -> Some(3000)
      [] text = "-1" -> Some(0 - 1000)
      [] text = "2.5" -> Some(2500)
      [] text = "1.5" -> Some(1500)
      [] text = "0.005" -> Some(5)
      [] OTHER -> None

PromptPcs ==
    {"prompt_mode", "prompt_mode_retry", "prompt_csv_filename",
     "prompt_material", "prompt_material_retry",
     "prompt_config", "prompt_config_retry",
     "prompt_spacing", "prompt_spacing_retry", "prompt_custom_spacing",
     "prompt_customize", "prompt_impact_time", "prompt_contact_area",
     "prompt_exponent", "prompt_layers"}

\* Variant: the contact-area prompt without its quit check.
QuitAtSkipsArea(prompt, text) == prompt # "prompt_contact_area" /\ text = "q"

\* if <text> == 'q': sys.exit(0), as written after every input().
QuitAt(prompt, text) == text = "q"

\* sys.exit(0)
Quit ==
    /\ pc' = "exited"
    /\ UNCHANGED << printed, shown, files, csv, loop, forceCalls, sess >>

\* Continue at another prompt. The menus and the notices about an invalid line
\* printed on the way are not recorded: the prompt reached tells them.
Goto(next, s) ==
    /\ pc' = next
    /\ sess' = s
    /\ UNCHANGED << printed, shown, files, csv, loop, forceCalls >>

\* The end of a computation: rows printed, or a traceback.
Finish(s, r, msgs) ==
    /\ sess' = s
    /\ shown' = shown \o r.rows
    /\ forceCalls' = forceCalls + r.calls
    /\ printed' = printed \cup msgs \cup (IF r.raised THEN {"traceback"} ELSE {})
    /\ pc' = IF r.raised THEN "crashed" ELSE "done"
    /\ UNCHANGED << files, csv, loop >>

\* The mode prompt: default '1' at the first prompt, none at a re-prompt.
AskMode(prompt, hasDefault) ==
    /\ pc = prompt
    /\ \E raw \in RawInputs :
         LET t    == Lower(Strip(raw))
             text == IF hasDefault THEN OrDefault(t, "1") ELSE t
         IN  /\ typed' = Some(raw)
             /\ IF QuitAt(prompt, text) THEN Quit
                ELSE IF text \notin {"1", "2", "3"}
                THEN Goto("prompt_mode_retry", sess)
                ELSE IF text = "3"
                THEN Goto("prompt_csv_filename", [sess EXCEPT !.mode = Some(text)])
                ELSE Goto("prompt_material", [sess EXCEPT !.mode = Some(text)])
    /\ UNCHANGED << registry, args >>
    /\ UNCHANGED callVars

PromptMode == AskMode("prompt_mode", TRUE)
PromptModeRetry == AskMode("prompt_mode_retry", FALSE)

\* The CSV filename prompt, then generate_csv(filename) with default constants.
PromptCsvFilename ==
    /\ pc = "prompt_csv_filename"
    /\ \E raw \in RawInputs :
         LET filename == OrDefault(Strip(raw), "breaking_matrix.csv")
         IN  /\ typed' = Some(raw)
             /\ IF QuitAt("prompt_csv_filename", filename) THEN Quit
                ELSE /\ loop' = Some([filename |-> filename, dt |-> DefaultDt,
                                      a |-> DefaultArea, exponent |-> DefaultExponent,
                                      i |-> 1, c |-> 1, n |-> 1])
                     /\ pc' = "csv_open"
                     /\ UNCHANGED << printed, shown, files, csv, forceCalls, sess >>
    /\ UNCHANGED << registry, args >>
    /\ UNCHANGED callVars

AskMaterial(prompt) ==
    /\ pc = prompt
    /\ \E raw \in RawInputs :
         LET text == Lower(Strip(raw))
         IN  /\ typed' = Some(raw)
             /\ IF QuitAt(prompt, text) THEN Quit
                ELSE IF ~IsDigit(text) \/ ~(1 <= Val(ParseInt(text))
                                            /\ Val(ParseInt(text)) <= Len(registry))
                THEN Goto("prompt_material_retry", sess)
                ELSE Goto("prompt_config",
                          [sess EXCEPT !.material =
                                          Some(registry[Val(ParseInt(text))].name)])
    /\ UNCHANGED << registry, args >>
    /\ UNCHANGED callVars

PromptMaterial == AskMaterial("prompt_material")
PromptMaterialRetry == AskMaterial("prompt_material_retry")

AskConfig(prompt, hasDefault) ==
    /\ pc = prompt
    /\ \E raw \in RawInputs :
         LET t    == Lower(Strip(raw))
             text == IF hasDefault THEN OrDefault(t, "2") ELSE t
         IN  /\ typed' = Some(raw)
             /\ IF QuitAt(prompt, text) THEN Quit
                ELSE IF text \notin {"1", "2"}
                THEN Goto("prompt_config_retry", sess)
                ELSE IF text = "1"
                THEN Goto("prompt_spacing", [sess EXCEPT !.config = Some("pegged")])
                ELSE Goto("prompt_customize",
                          [sess EXCEPT !.config = Some("unpegged")])
    /\ UNCHANGED << registry, args >>
    /\ UNCHANGED callVars

PromptConfig == AskConfig("prompt_config", TRUE)
PromptConfigRetry == AskConfig("prompt_config_retry", FALSE)

AskSpacing(prompt, hasDefault) ==
    /\ pc = prompt
    /\ \E raw \in RawInputs :
         LET t    == Lower(Strip(raw))
             text == IF hasDefault THEN OrDefault(t, "1") ELSE t
         IN  /\ typed' = Some(raw)
             /\ IF QuitAt(prompt, text) THEN Quit
                ELSE IF text \notin {"1", "2", "3"}
                THEN Goto("prompt_spacing_retry", sess)
                ELSE IF text = "1"
                THEN Goto("prompt_customize",
                          [sess EXCEPT !.spacing = Some(PennySpacing)])
                ELSE IF text = "2"
                THEN Goto("prompt_customize",
                          [sess EXCEPT !.spacing = Some(PencilSpacing)])
                ELSE Goto("prompt_custom_spacing", sess)
    /\ UNCHANGED << registry, args >>
    /\ UNCHANGED callVars

PromptSpacing == AskSpacing("prompt_spacing", TRUE)
PromptSpacingRetry == AskSpacing("prompt_spacing_retry", FALSE)

\* The custom spacing loop: a float >= 0, asked again otherwise.
PromptCustomSpacing ==
    /\ pc = "prompt_custom_spacing"
    /\ \E raw \in RawInputs :
         LET spacing_str == Lower(Strip(raw))
             spacing     == ParseFloat(spacing_str)
         IN  /\ typed' = Some(raw)
             /\ IF QuitAt("prompt_custom_spacing", spacing_str) THEN Quit
                ELSE IF ~IsSome(spacing)
                THEN Goto("prompt_custom_spacing", sess)
                ELSE IF Val(spacing) < 0
                THEN Goto("prompt_custom_spacing", [sess EXCEPT !.spacing = spacing])
                ELSE Goto("prompt_customize", [sess EXCEPT !.spacing = spacing])
    /\ UNCHANGED << registry, args >>
    /\ UNCHANGED callVars

\* What follows the constants: the matrix (mode 2) or the layer prompt.
AfterConstants(s) ==
    IF s.mode = Some("2")
    THEN Finish(s, PrintMatrix(Data(registry, Val(s.material)), Val(s.config),
                               s.spacing, Val(s.dt), Val(s.a), Val(s.exponent)),
                {"matrix"})
    ELSE Goto("prompt_layers", s)

PromptCustomize ==
    /\ pc = "prompt_customize"
    /\ \E raw \in RawInputs :
         LET customize == OrDefault(Lower(Strip(raw)), "n")
         IN  /\ typed' = Some(raw)
             /\ IF QuitAt("prompt_customize", customize) THEN Quit
                ELSE IF customize = "y"
                THEN Goto("prompt_impact_time", sess)
                ELSE AfterConstants([sess EXCEPT !.dt = Some(DefaultDt),
                                                 !.a = Some(DefaultArea),
                                                 !.exponent = Some(DefaultExponent)])
    /\ UNCHANGED << registry, args >>
    /\ UNCHANGED callVars

\* Impact time in seconds; kept in microseconds. An unparsable line keeps the
\* default. The line is stripped but not lowered.
PromptImpactTime ==
    /\ pc = "prompt_impact_time"
    /\ \E raw \in RawInputs :
         LET dt_str == OrDefault(Strip(raw), "0.005")
             dt     == ParseFloat(dt_str)
         IN  /\ typed' = Some(raw)
             /\ IF QuitAt("prompt_impact_time", dt_str) THEN Quit
                ELSE IF IsSome(dt)
                THEN Goto("prompt_contact_area",
                          [sess EXCEPT !.dt = Some(Val(dt) * Milli)])
                ELSE Goto("prompt_contact_area",
                          [sess EXCEPT !.dt = Some(DefaultDt)])
    /\ UNCHANGED << registry, args >>
    /\ UNCHANGED callVars

\* Contact area in in^2; kept in tenths.
PromptContactArea ==
    /\ pc = "prompt_contact_area"
    /\ \E raw \in RawInputs :
         LET a_str == OrDefault(Strip(raw), "2.5")
             a     == ParseFloat(a_str)
         IN  /\ typed' = Some(raw)
             /\ IF QuitAt("prompt_contact_area", a_str) THEN Quit
                ELSE IF IsSome(a)
                THEN Goto("prompt_exponent",
                          [sess EXCEPT !.a = Some(Val(a) \div 100)])
                ELSE Goto("prompt_exponent",
                          [sess EXCEPT !.a = Some(DefaultArea)])
    /\ UNCHANGED << registry, args >>
    /\ UNCHANGED callVars

\* Scaling exponent; kept in halves.
PromptExponent ==
    /\ pc = "prompt_exponent"
    /\ \E raw \in RawInputs :
         LET exp_str  == OrDefault(Strip(raw), "1.5")
             exponent == ParseFloat(exp_str)
         IN  /\ typed' = Some(raw)
             /\ IF QuitAt("prompt_exponent", exp_str) THEN Quit
                ELSE IF IsSome(exponent)
                THEN AfterConstants([sess EXCEPT !.exponent = Some(Val(exponent) \div 500)])
                ELSE AfterConstants([sess EXCEPT !.exponent = Some(DefaultExponent)])
    /\ UNCHANGED << registry, args >>
    /\ UNCHANGED callVars

\* The layer-count loop, then the single calculation.
PromptLayers ==
    /\ pc = "prompt_layers"
    /\ \E raw \in RawInputs :
         LET layers_str == OrDefault(Lower(Strip(raw)), "1")
             layers     == ParseInt(layers_str)
         IN  /\ typed' = Some(raw)
             /\ IF QuitAt("prompt_layers", layers_str) THEN Quit
                ELSE IF ~IsSome(layers)
                THEN Goto("prompt_layers", sess)
                ELSE IF Val(layers) < 1
                THEN Goto("prompt_layers", sess)
                ELSE LET r == PrintSingle(Data(registry, Val(sess.material)),
                                          Val(layers), Val(sess.config), sess.spacing,
                                          Val(sess.dt), Val(sess.a), Val(sess.exponent))
                     IN  Finish(sess, r,
                                (IF Val(layers) > 10 THEN {"warning_layers"} ELSE {})
                                  \cup (IF r.raised THEN {} ELSE {"result"}))
    /\ UNCHANGED << registry, args >>
    /\ UNCHANGED callVars

NextInteractive ==
    \/ PromptMode \/ PromptModeRetry \/ PromptCsvFilename
    \/ PromptMaterial \/ PromptMaterialRetry
    \/ PromptConfig \/ PromptConfigRetry
    \/ PromptSpacing \/ PromptSpacingRetry \/ PromptCustomSpacing
    \/ PromptCustomize \/ PromptImpactTime \/ PromptContactArea \/ PromptExponent
    \/ PromptLayers

Next == NextMain \/ NextInteractive

Spec == Init /\ [][Next]_vars

(* ---------------------------------------------------------------------- *)
(* Properties of calculate_force (checked under SpecCalls)                 *)
(* ---------------------------------------------------------------------- *)

IsPeggedCall == IsSome(call) /\ Val(call).config = "pegged"

\* C1: for F1 > 0, m > 0, layers >= 1, duration > 0 and any spacing (absent,
\* zero, negative or positive), the pegged force is never less than
\* F1 * max(1, layers * 0.5), hence never negative.
C1_PeggedAtLeastClamp ==
    IsPeggedCall =>
        /\ 2 * Val(ret) >= mat.F1 * Max(2, Val(call).n) * Milli
        /\ Val(ret) >= 0

\* A pegged call whose unclamped value fell below the clamp, and was clamped.
C1_Witness ==
    /\ IsPeggedCall
    /\ Val(call).n >= 3
    /\ IsSome(Val(call).spacing) /\ Val(Val(call).spacing) > 0
    /\ mat.F1 * Val(call).n * Milli
         - Reduction(mat, Val(call).n, Val(Val(call).spacing), Val(call).dt)
           < mat.F1 * Milli
    /\ 2 * Val(ret) = mat.F1 * Val(call).n * Milli

\* The call test_concrete_pegged_double makes.
IsConcretePeggedDouble ==
    /\ mat = MATERIALS_DICT[3].data
    /\ call = Some([n |-> 2, config |-> "pegged", spacing |-> Some(PennySpacing),
                    dt |-> DefaultDt, exponent |-> DefaultExponent])

\* C2: concrete, pegged, 2 layers, 1.52 mm, 0.005 s: the force is 957.2 lbf to
\* one decimal place, i.e. round(|force - 957.2|, 1) = 0 (assertAlmostEqual).
C2_ConcretePeggedDoubleIs957_2 ==
    IsConcretePeggedDouble => Round1(Abs(Val(ret) - 957200)) = 0

\* C3: at layers = 1 the force is exactly F1, for every material, both
\* configurations, every spacing and every scaling exponent.
C3_SingleLayerIsF1 ==
    (IsSome(call) /\ Val(call).n = 1) => Val(ret) = mat.F1 * Milli

\* A one-layer unpegged call on a flexible material with exponent 1.5.
C3_Witness ==
    /\ IsSome(call) /\ Val(call).n = 1
    /\ Val(call).config = "unpegged" /\ mat.type = "flexible"
    /\ Val(call).exponent = DefaultExponent
    /\ Val(ret) = 200 * Milli

\* C4: pegged with spacing absent, zero or negative returns exactly the
\* unclamped base F1 * layers, whatever the mass, class and duration.
C4_NoSpacingIsBase ==
    (IsPeggedCall /\ (~IsSome(Val(call).spacing) \/ Val(Val(call).spacing) <= 0))
        => Val(ret) = mat.F1 * Val(call).n * Milli

\* A many-layer pegged call with spacing None, on the heaviest brittle
\* material and the shortest duration, after a call with a positive spacing
\* that returned less.
C4_Witness ==
    /\ IsPeggedCall /\ Val(call).n >= 2
    /\ Val(call).spacing = None
    /\ mat.m = 55 /\ mat.type = "brittle" /\ Val(call).dt = 1000
    /\ IsSome(prev) /\ Val(prev).force < Val(ret)

\* C5: for a fixed material, layers and duration, and two spacings
\* 0 <= s1 <= s2, the pegged force at s1 is at least the force at s2.
C5_MonotoneInSpacing ==
    (/\ IsPeggedCall /\ IsSome(prev)
     /\ IsSome(Val(call).spacing) /\ IsSome(Val(prev).spacing)
     /\ Val(Val(call).spacing) >= 0 /\ Val(Val(prev).spacing) >= 0)
        => LET s1 == Val(Val(prev).spacing)
               f1 == Val(prev).force
               s2 == Val(Val(call).spacing)
               f2 == Val(ret)
           IN  /\ (s1 <= s2 => f1 >= f2)
               /\ (s2 <= s1 => f2 >= f1)

\* Two pegged calls, the first at spacing 0 and the second at the pencil
\* spacing, the second returning strictly less.
C5_Witness ==
    /\ IsPeggedCall /\ IsSome(prev)
    /\ Val(prev).spacing = Some(0)
    /\ Val(call).spacing = Some(PencilSpacing)
    /\ Val(prev).force > Val(ret)

\* A pegged call followed by the unpegged call of the same registry material,
\* layers and duration, with the default exponent 1.5 and a spacing the
\* callers accept (absent or >= 0).
IsPeggedThenUnpegged ==
    /\ IsSome(call) /\ IsSome(prev)
    /\ Val(call).config = "unpegged" /\ Val(prev).config = "pegged"
    /\ Val(prev).spacing = Val(call).spacing
    /\ \E i \in 1..Len(MATERIALS_DICT) : mat = MATERIALS_DICT[i].data
    /\ Val(call).exponent = 3
    /\ Val(call).dt > 0
    /\ (~IsSome(Val(call).spacing) \/ Val(Val(call).spacing) >= 0)

Terminal == {"done", "exited", "crashed", "usage_exit"}

\* generate_csv ran to completion: every loop finished, no IOError.
CsvCompleted == pc = "done" /\ IsSome(loop) /\ Val(loop).i > Len(registry)

\* The data rows of the file written for a material, configuration and layers.
RowsFor(name, config, n) ==
    { k \in 2..Len(csv) :
        csv[k].material = name /\ csv[k].config = config /\ csv[k].layers = n }

\* C6: generate_csv, run to completion on a registry of M distinct materials,
\* writes after the header exactly M * 2 * 10 data rows, exactly one for each
\* (material, configuration, layers in 1..10).
C6_CsvIsCrossProduct ==
    CsvCompleted =>
        /\ Len(csv) = 1 + Len(registry) * 2 * 10
        /\ csv[1] = CsvHeader
        /\ \A name \in Names(registry) : \A config \in {"pegged", "unpegged"} :
             \A n \in 1..10 : Cardinality(RowsFor(name, config, n)) = 1

\* A completed export of the built-in registry: header and 60 rows.
C6_Witness ==
    /\ CsvCompleted /\ registry = MATERIALS_DICT
    /\ Len(csv) = 61 /\ forceCalls = 60

\* The spacing the invocation asks for: --spacing, else --pencil's 6.35 mm,
\* else the default 1.52 mm.
RequestedSpacing ==
    IF IsSome(args.spacing) THEN args.spacing
    ELSE IF args.pencil THEN Some(6350) ELSE Some(1520)

\* C7: in CSV export every pegged row is computed with the default 1.52 mm
\* when the invocation gives no override and with the overriding spacing
\* (--spacing, or 6.35 mm for --pencil) when it gives one; unpegged rows carry
\* no spacing.
C7_CsvUsesRequestedSpacing ==
    \A k \in 2..Len(csv) :
        IF csv[k].config = "pegged"
        THEN /\ csv[k].spacing = RequestedSpacing
             /\ csv[k].force =
                  Round1(calculate_force(Data(registry, csv[k].material), csv[k].layers,
                                         "pegged", RequestedSpacing, Val(loop).dt,
                                         Val(loop).exponent))
        ELSE csv[k].spacing = None

\* A command line with an argument, a layer count below 1 or a negative
\* spacing, and neither --test nor --update-data.
InvalidCliInput ==
    /\ args.given /\ ~args.test /\ ~args.update_data
    /\ (args.layers < 1 \/ (IsSome(args.spacing) /\ Val(args.spacing) < 0))

\* C8: in command-line mode, whenever the layer count is below 1 or the
\* spacing is negative, the run prints an error message and exits cleanly
\* without calling calculate_force and without any result, matrix, plot or
\* CSV output, whatever the other flags (configuration, --matrix, --all-csv).
C8_InvalidInputExitsEarly ==
    InvalidCliInput =>
        /\ forceCalls = 0 /\ files = {} /\ shown = << >> /\ csv = << >>
        /\ printed \cap {"result", "matrix", "plot_saved"} = {}
        /\ pc \in Terminal =>
             /\ pc = "done"
             /\ printed \cap {"error_layers", "error_spacing", "error_material"} # {}

\* C9: a command-line run with an argument, not CSV export, not self-test and
\* without --material reports the missing-material error, prints the usage
\* help and computes no force, whatever the other flags (--layers, --matrix,
\* --config).
C9_MissingMaterialReported ==
    (/\ args.given /\ ~IsSome(args.all_csv) /\ ~args.test /\ ~args.update_data
     /\ ~IsSome(args.material))
        => /\ forceCalls = 0
           /\ pc \in Terminal => {"error_material", "usage"} \subseteq printed

\* C10: at every prompt of an interactive session, re-prompts included, the
\* line 'q' ends the session at once: the run exits, nothing more is computed,
\* printed or written, and no step follows the exit.
C10_QuitEndsSession ==
    [][ /\ pc # "exited"
        /\ (pc \in PromptPcs /\ typed' = Some("q"))
             => /\ pc' = "exited"
                /\ UNCHANGED << printed, shown, files, csv, forceCalls >> ]_vars

\* A session ended by 'q' after the contact-area prompt was answered, with no
\* force computed.
C10_Witness ==
    /\ pc = "exited" /\ typed = Some("q")
    /\ IsSome(sess.a) /\ sess.config = Some("pegged")
    /\ forceCalls = 0 /\ shown = << >>

====
